---- MODULE Spec2Model ----
(***************************************************************************)
(* findme: concurrent chunked line search.                                 *)
(*                                                                         *)
(* Two variants of the program are modelled:                               *)
(*   "main"  src/main.go           (Process on *os.File, no WaitGroup)     *)
(*   "part"  src/unnamed/part_000  (Process on *bufio.Reader, WaitGroup,   *)
(*                                  case-insensitive and whole-word modes) *)
(*                                                                         *)
(* Strings are sequences of ASCII byte codes.  32-bit words (uint32) are   *)
(* pairs <<hi, lo>> of 16-bit halves, so that arithmetic modulo 2^32 is    *)
(* computed exactly.                                                       *)
(***************************************************************************)
EXTENDS Integers, Sequences, FiniteSets, Bags, TLC

(***************************************************************************)
(* Bytes and strings                                                       *)
(***************************************************************************)
NL == 10
CR == 13
Nil == "nil"

\* strings.ToLower on ASCII text: 'A'..'Z' become 'a'..'z'.
LowerByte(c) == IF c >= 65 /\ c <= 90 THEN c + 32 ELSE c

ToLower(s) == [i \in 1..Len(s) |-> LowerByte(s[i])]

\* s[i : i+n] of Go, i counted from 0.
Slice(s, i, n) == SubSeq(s, i + 1, i + n)

\* strings.TrimRight(line, "\r\n"): drop every trailing CR or NL.
RECURSIVE TrimRight(_)
TrimRight(s) ==
  IF Len(s) > 0 /\ s[Len(s)] \in {CR, NL}
  THEN TrimRight(SubSeq(s, 1, Len(s) - 1))
  ELSE s

\* All sequences over S of length lo..hi.
SeqsOf(S, lo, hi) == UNION {[1..n -> S] : n \in lo..hi}

(***************************************************************************)
(* uint32 arithmetic on <<hi, lo>> halves                                  *)
(***************************************************************************)
Half == 256 * 256

RECURSIVE XorN(_, _, _)
XorN(a, b, n) ==
  IF n = 0 THEN 0
  ELSE ((a + b) % 2) + 2 * XorN(a \div 2, b \div 2, n - 1)

Xor32(x, y) == <<XorN(x[1], y[1], 16), XorN(x[2], y[2], 16)>>

\* The full 32-bit product of two 16-bit numbers, as <<hi, lo>>.
Mul16(a, b) ==
  LET p0 == a * (b % 256)
      p1 == a * (b \div 256)
      t  == p0 + (p1 % 256) * 256
  IN  <<((t \div Half) + (p1 \div 256)) % Half, t % Half>>

\* x * y modulo 2^32.
Mul32(x, y) ==
  LET ll == Mul16(x[2], y[2])
  IN  <<(ll[1] + Mul16(x[1], y[2])[2] + Mul16(x[2], y[1])[2]) % Half, ll[2]>>

\* x + y modulo 2^32.
Add32(x, y) ==
  LET lo == x[2] + y[2]
  IN  <<(x[1] + y[1] + (lo \div Half)) % Half, lo % Half>>

RECURSIVE Pow2(_)
Pow2(n) == IF n = 0 THEN 1 ELSE 2 * Pow2(n - 1)

\* bits.RotateLeft32(x, r) for 0 < r < 16.
Rotl32(x, r) ==
  <<((x[1] * Pow2(r)) % Half) + (x[2] \div Pow2(16 - r)),
    ((x[2] * Pow2(r)) % Half) + (x[1] \div Pow2(16 - r))>>

\* x >> r for 0 < r <= 16.
Shr32(x, r) ==
  <<x[1] \div Pow2(r), (x[2] \div Pow2(r)) + (x[1] % Pow2(r)) * Pow2(16 - r)>>

(***************************************************************************)
(* calculateHash                                                           *)
(***************************************************************************)
\* src/main.go: hash = hash*31 + uint32(c) over the runes of s, in uint32.
RECURSIVE PolyHashFrom(_, _, _)
PolyHashFrom(h, s, i) ==
  IF i > Len(s) THEN h
  ELSE PolyHashFrom(Add32(Mul32(h, <<0, 31>>), <<0, s[i]>>), s, i + 1)

PolyHash(s) == PolyHashFrom(<<0, 0>>, s, 1)

\* src/unnamed/part_000: murmur3.Sum32([]byte(s)), MurmurHash3 x86_32, seed 0.
MurC1 == <<52382, 11601>>    \* 0xcc9e2d51
MurC2 == <<7047, 13715>>     \* 0x1b873593
MurN  == <<58964, 27492>>    \* 0xe6546b64
MurF1 == <<34283, 51819>>    \* 0x85ebca6b
MurF2 == <<49842, 44597>>    \* 0xc2b2ae35

MurScramble(k) == Mul32(Rotl32(Mul32(k, MurC1), 15), MurC2)

\* One little-endian 4-byte block starting at byte i (1-based).
MurBlock(s, i) == <<s[i + 3] * 256 + s[i + 2], s[i + 1] * 256 + s[i]>>

RECURSIVE MurBody(_, _, _)
MurBody(h, s, i) ==
  IF i + 3 > Len(s) THEN h
  ELSE MurBody(Add32(Mul32(Rotl32(Xor32(h, MurScramble(MurBlock(s, i))), 13),
                           <<0, 5>>), MurN),
               s, i + 4)

\* The 1..3 bytes left after the last whole block.
MurTail(h, s) ==
  LET n == Len(s) % 4
      b == Len(s) - n
      k == <<IF n >= 3 THEN s[b + 3] ELSE 0,
             (IF n >= 2 THEN s[b + 2] * 256 ELSE 0) + (IF n >= 1 THEN s[b + 1] ELSE 0)>>
  IN  IF n = 0 THEN h ELSE Xor32(h, MurScramble(k))

MurFmix(h) ==
  LET h1 == Xor32(h, Shr32(h, 16))
      h2 == Mul32(h1, MurF1)
      h3 == Xor32(h2, Shr32(h2, 13))
      h4 == Mul32(h3, MurF2)
  IN  Xor32(h4, Shr32(h4, 16))

Murmur3Sum32(s) ==
  MurFmix(Xor32(MurTail(MurBody(<<0, 0>>, s, 1), s), <<0, Len(s)>>))

calculateHash(variant, s) ==
  IF variant = "main" THEN PolyHash(s) ELSE Murmur3Sum32(s)

(***************************************************************************)
(* Bounds and alphabets                                                    *)
(***************************************************************************)
MaxLineLen == 3      \* longest line given to the matcher
MaxQueryLen == 2     \* longest query
MaxEvals == 2        \* lines one worker evaluates in a row in SpecMatch

\* 'A', 'B', 'a' (PolyHash("Aa") = PolyHash("BB")) and '.' (a non-word byte
\* and a pattern metacharacter).
MatchAlphabet == {65, 66, 97, 46}

\* 'a' and newline.
FileAlphabet == {97, NL}

\* The queries of the pipeline: "a", "A" (which lower-casing changes), and
\* "(" which does not compile.
PipeQueries == {<<97>>, <<65>>, <<40>>}

Variants == {"main", "part"}

\* calculateHash of every string a query or a window can be, computed once.
HashBytes ==
  MatchAlphabet \cup {LowerByte(c) : c \in MatchAlphabet} \cup {97, 40}

HashTable ==
  [p \in Variants \X SeqsOf(HashBytes, 0, MaxQueryLen) |->
     calculateHash(p[1], p[2])] @@ <<>>

HashOf(variant, s) == HashTable[<<variant, s>>]

(***************************************************************************)
(* regexp.Compile and Regexp.MatchString                                    *)
(*                                                                         *)
(* The pattern syntax is modelled for the characters the model's alphabets *)
(* hold: '.' (any byte but newline), '(' (with no ')' in any alphabet, an  *)
(* unclosed group: a compile error), the assertion \b, and literals.  A    *)
(* compiled pattern is its sequence of tokens; a failed compilation is Nil *)
(* (the code discards the error and keeps the nil *Regexp).                *)
(***************************************************************************)
WordB == <<92, 98>>          \* the two bytes of "\b"

IsWordByte(c) ==
  \/ c >= 48 /\ c <= 57
  \/ c >= 65 /\ c <= 90
  \/ c >= 97 /\ c <= 122
  \/ c = 95

RECURSIVE ParseFrom(_, _)
ParseFrom(q, i) ==
  IF i > Len(q) THEN <<>>
  ELSE IF q[i] = 92
       THEN IF i < Len(q) /\ q[i + 1] = 98
            THEN LET rest == ParseFrom(q, i + 2)
                 IN  IF rest = Nil THEN Nil ELSE <<<<"wb">>>> \o rest
            ELSE Nil
  ELSE IF q[i] = 40 THEN Nil
  ELSE LET rest == ParseFrom(q, i + 1)
           tok  == IF q[i] = 46 THEN <<"any">> ELSE <<"lit", q[i]>>
       IN  IF rest = Nil THEN Nil ELSE <<tok>> \o rest

Compile(q) == ParseFrom(q, 1)

\* \b at offset i of s (i bytes lie before it): exactly one side is a word byte.
IsBoundary(s, i) ==
  (i > 0 /\ IsWordByte(s[i])) # (i < Len(s) /\ IsWordByte(s[i + 1]))

\* Whether tokens k.. of re match s starting at offset i; the offset after the
\* match, or -1.
RECURSIVE MatchEnd(_, _, _, _)
MatchEnd(re, k, s, i) ==
  IF k > Len(re) THEN i
  ELSE IF re[k][1] = "wb"
       THEN IF IsBoundary(s, i) THEN MatchEnd(re, k + 1, s, i) ELSE -1
  ELSE IF i >= Len(s) THEN -1
  ELSE IF re[k][1] = "any"
       THEN IF s[i + 1] # NL THEN MatchEnd(re, k + 1, s, i + 1) ELSE -1
  ELSE IF s[i + 1] = re[k][2] THEN MatchEnd(re, k + 1, s, i + 1) ELSE -1

\* r.MatchString(s): the pattern matches somewhere in s (unanchored).
MatchString(re, s) == \E i \in 0..Len(s) : MatchEnd(re, 1, s, i) >= 0

(***************************************************************************)
(* The body of processChunkWorker's line loop, for one non-empty line      *)
(***************************************************************************)
\* The scan with the byte comparison left out.
HashScanHashOnly(variant, line, query, queryHash) ==
  \E i \in 0..(Len(line) - Len(query)) :
     HashOf(variant, Slice(line, i, Len(query))) = queryHash

\* The sliding-window scan: for i := 0; i <= len(line)-len(query); i++.
HashScan(variant, line, query, queryHash) ==
  \E i \in 0..(Len(line) - Len(query)) :
     /\ HashOf(variant, Slice(line, i, Len(query))) = queryHash
     /\ Slice(line, i, Len(query)) = query

\* The line body: the decision ("match", "nomatch", or "panic" for a nil
\* *Regexp dereference), and the worker's local query and r afterwards.
\* src/main.go has neither caseInsensitive nor wholeWord (both FALSE there).
MatchLine(variant, line, query, r, queryHash, regex, ci, ww) ==
  IF regex
  THEN [res   |-> IF r = Nil THEN "panic"
                  ELSE IF MatchString(r, line) THEN "match" ELSE "nomatch",
        query |-> query, r |-> r]
  ELSE LET lineStr == IF ci THEN ToLower(line) ELSE line
           q1      == IF ci THEN ToLower(query) ELSE query
       IN  IF ww
           THEN LET q2 == WordB \o q1 \o WordB
                    r2 == Compile(q2)
                IN  [res   |-> IF r2 = Nil THEN "panic"
                               ELSE IF MatchString(r2, lineStr) THEN "match"
                               ELSE "nomatch",
                     query |-> q2, r |-> r2]
           ELSE [res   |-> IF HashScan(variant, lineStr, q1, queryHash)
                           THEN "match" ELSE "nomatch",
                 query |-> q1, r |-> r]

(***************************************************************************)
(* The search Action of main: the pattern is compiled only in regex mode,  *)
(* and the compile error is discarded.                                     *)
(***************************************************************************)
SearchPattern(query, isRegex) == IF isRegex THEN Compile(query) ELSE Nil

\* The flag combinations each variant's command line offers.
Modes(variant) ==
  IF variant = "main"
  THEN {[regex |-> b, ci |-> FALSE, ww |-> FALSE] : b \in BOOLEAN}
  ELSE [regex : BOOLEAN, ci : BOOLEAN, ww : BOOLEAN]

(***************************************************************************)
(* Reading a file in chunks: bufio.Reader and the loop of Process          *)
(***************************************************************************)
BlockSize == 2       \* len of a linesPool buffer (250*1024 in the code)
BufSize == 2         \* size of bufio.Reader's own buffer (4096 in bufio)
MaxFileLen == 4      \* longest file
MaxWorkers == 2      \* largest runtime.NumGoroutine()

Min(a, b) == IF a < b THEN a ELSE b

\* Index of the first newline of s after index from, or 0.
FirstNL(s, from) ==
  IF \E i \in (from + 1)..Len(s) : s[i] = NL
  THEN CHOOSE i \in (from + 1)..Len(s) :
         s[i] = NL /\ \A j \in (from + 1)..(i - 1) : s[j] # NL
  ELSE 0

\* The reader is [under, lpos]: the file bytes 1..under have been read from
\* the file, of which 1..lpos have been handed to the caller; the rest sit
\* in the reader's buffer.
\*
\* bufio.Reader.Read(p), len(p) = BlockSize: the buffered bytes if there are
\* any; else one read of the file, straight into p when p is at least as large
\* as the reader's buffer.  n = 0 is (0, io.EOF).
BufRead(file, under, lpos) ==
  IF under > lpos
  THEN LET n == Min(BlockSize, under - lpos)
       IN  [n |-> n, under |-> under, lpos |-> lpos + n]
  ELSE IF under = Len(file)
  THEN [n |-> 0, under |-> under, lpos |-> lpos]
  ELSE IF BlockSize >= BufSize
  THEN LET n == Min(BlockSize, Len(file) - under)
       IN  [n |-> n, under |-> under + n, lpos |-> lpos + n]
  ELSE LET got == Min(BufSize, Len(file) - under)
           n   == Min(BlockSize, got)
       IN  [n |-> n, under |-> under + got, lpos |-> lpos + n]

\* bufio.Reader.ReadBytes('\n'): search the buffer, refill it, collect the
\* full buffers, until a newline or the end of the file; c is the reader's
\* position.  eof is err == io.EOF: the file ended before a newline.
RECURSIVE ReadBytes(_, _, _)
ReadBytes(file, under, c) ==
  LET d == FirstNL(file, c)
  IN  IF d # 0 /\ d <= under
      THEN [lpos |-> d, under |-> under, eof |-> FALSE]
      ELSE IF under - c >= BufSize THEN ReadBytes(file, under, under)
      ELSE IF under = Len(file)
      THEN [lpos |-> under, under |-> under, eof |-> TRUE]
      ELSE ReadBytes(file, Min(Len(file), under + (BufSize - (under - c))), c)

\* The iteration without the ReadBytes that extends the chunk to the end of
\* its last line.
ChunkReadBlockOnly(file, under, lpos) ==
  LET r1 == BufRead(file, under, lpos)
  IN  [n |-> r1.n, buf |-> SubSeq(file, lpos + 1, r1.lpos),
       under |-> r1.under, lpos |-> r1.lpos]

\* One iteration of Process's loop up to the select: Read fills buf[:n];
\* what ReadBytes returns is appended unless it ended in io.EOF.
ChunkRead(file, under, lpos) ==
  LET r1 == BufRead(file, under, lpos)
      rb == ReadBytes(file, r1.under, r1.lpos)
  IN  IF r1.n = 0
      THEN [n |-> 0, buf |-> <<>>, under |-> r1.under, lpos |-> r1.lpos]
      ELSE [n |-> r1.n,
            buf |-> SubSeq(file, lpos + 1, r1.lpos) \o
                    (IF rb.eof THEN <<>> ELSE SubSeq(file, r1.lpos + 1, rb.lpos)),
            under |-> rb.under, lpos |-> rb.lpos]

(***************************************************************************)
(* Splitting a chunk into lines                                            *)
(***************************************************************************)
\* bufio's dropCR: one trailing carriage return is dropped.
DropCR(s) ==
  IF Len(s) > 0 /\ s[Len(s)] = CR THEN SubSeq(s, 1, Len(s) - 1) ELSE s

\* src/unnamed/part_000: bufio.Scanner with ScanLines; a last line with no
\* newline is a token too.
RECURSIVE ScanLines(_)
ScanLines(data) ==
  IF data = <<>> THEN <<>>
  ELSE LET k == FirstNL(data, 0)
       IN  IF k = 0 THEN <<DropCR(data)>>
           ELSE <<DropCR(SubSeq(data, 1, k - 1))>> \o
                ScanLines(SubSeq(data, k + 1, Len(data)))

\* src/main.go: reader.ReadString('\n') until it returns an error; the bytes
\* it returns with io.EOF are not looked at.
RECURSIVE ReadStrings(_)
ReadStrings(data) ==
  LET k == FirstNL(data, 0)
  IN  IF k = 0 THEN <<>>
      ELSE <<SubSeq(data, 1, k)>> \o ReadStrings(SubSeq(data, k + 1, Len(data)))

ChunkLines(variant, chunk) ==
  IF variant = "main" THEN ReadStrings(chunk) ELSE ScanLines(chunk)

VARIABLES
  lm,       \* SpecMatch: one worker's matching state
  cfg,      \* what Process was called with, and the file behind the reader
  pr,       \* the producer (the loop of Process): pc, buf, reader position
  wk,       \* each worker: pc, its chunk's number and lines left, query, r
  sent,     \* the chunks sent on chunkChan, in order
  ctl,      \* chunkChan closed, ctx cancelled
  pools,    \* whether a pool holds a value that was Put
  events,   \* the match lines printed
  aborted,  \* the program has panicked
  bufs,     \* the buffers linesPool's New has made, in order: who holds each
  lcfg,     \* SpecList: the search's flags and the tree under dirPath
  lis,      \* SpecList: each listFiles goroutine's place in its walk
  rdr,      \* SpecList: each readFileWorker: pc and the file it holds
  lst,      \* SpecList: fileChan closed, parallelListAndRead returned, errors
  reads     \* SpecList: how often readFile was called with each entry

pipe == <<cfg, pr, wk, sent, ctl, pools, events, aborted, bufs>>
list == <<lcfg, lis, rdr, lst, reads>>
vars == <<lm, cfg, pr, wk, sent, ctl, pools, events, aborted, bufs,
          lcfg, lis, rdr, lst, reads>>

\* The values of the variables a specification does not use.
MatchIdle == lm = [evals |-> 0]
PipeIdle ==
  /\ cfg = [variant |-> "none"]
  /\ pr = [pc |-> "none"]
  /\ wk = <<>>
  /\ sent = <<>>
  /\ ctl = [closed |-> FALSE, cancelled |-> FALSE, cancelAt |-> {},
            panic |-> "none"]
  /\ pools = [lines |-> FALSE, strings |-> FALSE]
  /\ events = EmptyBag
  /\ aborted = FALSE
  /\ bufs = <<>>
ListIdle ==
  /\ lcfg = [numWorkers |-> 0]
  /\ lis = <<>>
  /\ rdr = <<>>
  /\ lst = [closed |-> FALSE, returned |-> FALSE, errors |-> 0]
  /\ reads = <<>>

(***************************************************************************)
(* SpecMatch: the line matcher on its own.  Init is a worker as Process    *)
(* starts it (query, r and queryHash as passed), about to evaluate line.   *)
(***************************************************************************)
MatchInit ==
  /\ PipeIdle
  /\ ListIdle
  /\ \E v \in Variants :
      \E m \in Modes(v) :
        \E q \in SeqsOf(MatchAlphabet, 0, MaxQueryLen) :
          \E l \in SeqsOf(MatchAlphabet, 1, MaxLineLen) :
            lm = [variant |-> v, regex |-> m.regex, ci |-> m.ci, ww |-> m.ww,
                  query0 |-> q, line |-> l,
                  queryHash |-> HashOf(v, q),
                  query |-> q, r |-> SearchPattern(q, m.regex),
                  res |-> "none", evals |-> 0]

\* The worker evaluates the line (again: the next line of the chunk has the
\* same text), with the query and r the previous evaluation left.
EvalLine ==
  /\ lm.evals < MaxEvals
  /\ lm.res # "panic"
  /\ LET o == MatchLine(lm.variant, lm.line, lm.query, lm.r, lm.queryHash,
                        lm.regex, lm.ci, lm.ww)
     IN  lm' = [lm EXCEPT !.res = o.res, !.query = o.query, !.r = o.r,
                          !.evals = @ + 1]
  /\ UNCHANGED <<pipe, list>>

MatchNext == EvalLine

SpecMatch == MatchInit /\ [][MatchNext]_vars

(***************************************************************************)
(* Spec: one invocation of Process, with its producer and its workers      *)
(***************************************************************************)
Workers == DOMAIN wk

\* Who holds a buffer: the Process goroutine, worker w, or linesPool.
ByProducer == [by |-> "producer", w |-> 0]
ByWorker(w) == [by |-> "worker", w |-> w]
ByPool == [by |-> "pool", w |-> 0]

\* The buffer linesPool's New returns to Process, with the n bytes of the
\* chunk read into it.
NewBuf(n) == [owner |-> ByProducer, n |-> n, recvs |-> 0, puts |-> 0]

\* Process up to its read loop: the pools are empty, chunkChan is open, and
\* numWorkers workers wait in their select with the query, r and queryHash
\* they were passed.
Init ==
  /\ MatchIdle
  /\ ListIdle
  /\ \E v \in Variants :
      \E m \in Modes(v) :
        \E q \in PipeQueries :
          \E f \in SeqsOf(FileAlphabet, 0, MaxFileLen) :
            \E n \in 1..MaxWorkers :
              /\ cfg = [variant |-> v, regex |-> m.regex, ci |-> m.ci, ww |-> m.ww,
                        query |-> q, re |-> SearchPattern(q, m.regex),
                        queryHash |-> HashOf(v, q), file |-> f, numWorkers |-> n]
              /\ wk = [w \in 1..n |->
                        [pc |-> "recv", chunk |-> 0, idx |-> 0, lines |-> <<>>,
                         query |-> q, r |-> SearchPattern(q, m.regex)]]
  /\ pr = [pc |-> "read", buf |-> <<>>, under |-> 0, lpos |-> 0]
  /\ sent = <<>>
  /\ ctl = [closed |-> FALSE, cancelled |-> FALSE, cancelAt |-> {},
            panic |-> "none"]
  /\ pools = [lines |-> FALSE, strings |-> FALSE]
  /\ events = EmptyBag
  /\ aborted = FALSE
  /\ bufs = <<>>

\* The producer reading on while it still holds a chunk it has not sent.
ProducerReadAhead ==
  /\ ~aborted
  /\ pr.pc \in {"read", "send"}
  /\ LET c == ChunkRead(cfg.file, pr.under, pr.lpos)
     IN  /\ pr' = [pc |-> IF c.n = 0 THEN "close" ELSE "send",
                    buf |-> c.buf, under |-> c.under, lpos |-> c.lpos]
         /\ bufs' = Append(bufs, NewBuf(Len(c.buf)))
  /\ UNCHANGED <<list, lm, cfg, wk, sent, ctl, pools, events, aborted>>

\* linesPool.Get() answers with New's buffer; Read and ReadBytes fill it.
\* At the end of the file (n == 0 with io.EOF) the loop is left.
ProducerRead ==
  /\ ~aborted
  /\ pr.pc = "read"
  /\ LET c == ChunkRead(cfg.file, pr.under, pr.lpos)
     IN  /\ pr' = [pc |-> IF c.n = 0 THEN "close" ELSE "send",
                    buf |-> c.buf, under |-> c.under, lpos |-> c.lpos]
         /\ bufs' = Append(bufs, NewBuf(Len(c.buf)))
  /\ UNCHANGED <<list, lm, cfg, wk, sent, ctl, pools, events, aborted>>

\* linesPool.Get() answers with a value a worker Put: a *[]byte, and the
\* assertion .([]byte) panics.
ProducerGetPanic ==
  /\ ~aborted
  /\ pr.pc = "read"
  /\ pools.lines
  /\ aborted' = TRUE
  /\ ctl' = [ctl EXCEPT !.panic = "linesPool.Get"]
  /\ UNCHANGED <<list, lm, cfg, pr, wk, sent, pools, events, bufs>>

\* The reader passed to Process answers (0, nil), as io.Reader allows:
\* Process returns err, and its deferred cancel() runs.  (src/main.go reads
\* an *os.File, which never answers so.)
ProducerReadNothing ==
  /\ ~aborted
  /\ cfg.variant = "part"
  /\ pr.pc = "read"
  /\ pr.under = pr.lpos
  /\ pr' = [pr EXCEPT !.pc = "returned"]
  /\ ctl' = [ctl EXCEPT !.cancelled = TRUE,
                        !.cancelAt = {w \in Workers : wk[w].pc = "recv"}]
  /\ bufs' = Append(bufs, NewBuf(0))
  /\ UNCHANGED <<list, lm, cfg, wk, sent, pools, events, aborted>>

\* close(chunkChan).  src/main.go then returns (and cancel() runs);
\* src/unnamed/part_000 goes on to wg.Wait().
ProducerClose ==
  /\ ~aborted
  /\ pr.pc = "close"
  /\ pr' = [pr EXCEPT !.pc = IF cfg.variant = "main" THEN "returned" ELSE "wait"]
  /\ ctl' = [ctl EXCEPT !.closed = TRUE,
                        !.cancelled = (cfg.variant = "main")]
  /\ UNCHANGED <<list, lm, cfg, wk, sent, pools, events, aborted, bufs>>

\* wg.Wait() returns once every worker has called wg.Done(); Process returns
\* nil and cancel() runs.
ProducerWait ==
  /\ ~aborted
  /\ pr.pc = "wait"
  /\ \A w \in Workers : wk[w].pc = "done"
  /\ pr' = [pr EXCEPT !.pc = "returned"]
  /\ ctl' = [ctl EXCEPT !.cancelled = TRUE]
  /\ UNCHANGED <<list, lm, cfg, wk, sent, pools, events, aborted, bufs>>

\* chunkChan is unbuffered: the producer's send and worker w's receive are
\* one step.  The worker starts on the chunk's lines.
Handoff(w) ==
  /\ ~aborted
  /\ pr.pc = "send"
  /\ wk[w].pc = "recv"
  /\ sent' = Append(sent, pr.buf)
  /\ wk' = [wk EXCEPT ![w].pc = "scan", ![w].chunk = Len(sent) + 1,
                      ![w].idx = 0,
                      ![w].lines = ChunkLines(cfg.variant, pr.buf)]
  /\ pr' = [pr EXCEPT !.pc = "read", !.buf = <<>>]
  /\ bufs' = [bufs EXCEPT ![Len(sent) + 1].owner = ByWorker(w),
                          ![Len(sent) + 1].recvs = @ + 1]
  /\ UNCHANGED <<list, lm, cfg, ctl, pools, events, aborted>>

\* The worker finds chunkChan closed and returns.
WorkerClosed(w) ==
  /\ ~aborted
  /\ wk[w].pc = "recv"
  /\ ctl.closed
  /\ wk' = [wk EXCEPT ![w].pc = "done"]
  /\ UNCHANGED <<list, lm, cfg, pr, sent, ctl, pools, events, aborted, bufs>>

\* src/unnamed/part_000: the worker's select takes <-ctx.Done().
\* (src/main.go's worker ranges over chunkChan and never looks at ctx.)
WorkerCancelled(w) ==
  /\ ~aborted
  /\ cfg.variant = "part"
  /\ wk[w].pc = "recv"
  /\ ctl.cancelled
  /\ wk' = [wk EXCEPT ![w].pc = "done"]
  /\ UNCHANGED <<list, lm, cfg, pr, sent, ctl, pools, events, aborted, bufs>>

\* The line loop if query and r were variables shared by the workers: what
\* worker w assigns, every worker sees.
WorkerLineShared(w) ==
  /\ ~aborted
  /\ wk[w].pc = "scan"
  /\ wk[w].lines # <<>>
  /\ LET line == TrimRight(Head(wk[w].lines))
         o    == MatchLine(cfg.variant, line, wk[w].query, wk[w].r,
                           cfg.queryHash, cfg.regex, cfg.ci, cfg.ww)
         next == [wk EXCEPT ![w].lines = Tail(@), ![w].idx = @ + 1]
     IN  IF line = <<>>
         THEN /\ wk' = next
              /\ UNCHANGED <<pools, events, aborted, ctl>>
         ELSE /\ wk' = [v \in Workers |->
                          [next[v] EXCEPT !.query = o.query, !.r = o.r]]
              /\ aborted' = (o.res = "panic")
              /\ ctl' = IF o.res = "panic"
                        THEN [ctl EXCEPT !.panic = "nil Regexp"] ELSE ctl
              /\ events' = IF o.res = "match"
                           THEN events (+) SetToBag({[chunk |-> wk[w].chunk,
                                                      idx |-> wk[w].idx + 1,
                                                      query |-> o.query]})
                           ELSE events
              /\ pools' = IF cfg.variant = "part" /\ o.res # "panic"
                          THEN [pools EXCEPT !.strings = TRUE] ELSE pools
  /\ UNCHANGED <<list, lm, cfg, pr, sent, bufs>>

\* One turn of the line loop.  A line that is empty once trimmed is skipped.
\* Otherwise (src/unnamed/part_000) stringPool.Get() answers with New's "",
\* the line is matched, and &lineStr is Put; a nil pattern panics.
WorkerLine(w) ==
  /\ ~aborted
  /\ wk[w].pc = "scan"
  /\ wk[w].lines # <<>>
  /\ LET line == TrimRight(Head(wk[w].lines))
         o    == MatchLine(cfg.variant, line, wk[w].query, wk[w].r,
                           cfg.queryHash, cfg.regex, cfg.ci, cfg.ww)
         next == [wk EXCEPT ![w].lines = Tail(@), ![w].idx = @ + 1]
     IN  IF line = <<>>
         THEN /\ wk' = next
              /\ UNCHANGED <<pools, events, aborted, ctl>>
         ELSE /\ wk' = [next EXCEPT ![w].query = o.query, ![w].r = o.r]
              /\ aborted' = (o.res = "panic")
              /\ ctl' = IF o.res = "panic"
                        THEN [ctl EXCEPT !.panic = "nil Regexp"] ELSE ctl
              /\ events' = IF o.res = "match"
                           THEN events (+) SetToBag({[chunk |-> wk[w].chunk,
                                                      idx |-> wk[w].idx + 1,
                                                      query |-> o.query]})
                           ELSE events
              /\ pools' = IF cfg.variant = "part" /\ o.res # "panic"
                          THEN [pools EXCEPT !.strings = TRUE] ELSE pools
  /\ UNCHANGED <<list, lm, cfg, pr, sent, bufs>>

\* src/unnamed/part_000: stringPool.Get() answers with a value a worker Put:
\* a *string, and the assertion v.(string) panics.
WorkerStringPanic(w) ==
  /\ ~aborted
  /\ cfg.variant = "part"
  /\ wk[w].pc = "scan"
  /\ wk[w].lines # <<>>
  /\ TrimRight(Head(wk[w].lines)) # <<>>
  /\ pools.strings
  /\ aborted' = TRUE
  /\ ctl' = [ctl EXCEPT !.panic = "stringPool.Get"]
  /\ UNCHANGED <<list, lm, cfg, pr, wk, sent, pools, events, bufs>>

\* The release moved into the line loop: the worker Puts the chunk it holds
\* and goes on scanning it.
WorkerPutEarly(w) ==
  /\ ~aborted
  /\ wk[w].pc = "scan"
  /\ bufs[wk[w].chunk].owner = ByWorker(w)
  /\ pools' = [pools EXCEPT !.lines = TRUE]
  /\ bufs' = [bufs EXCEPT ![wk[w].chunk].owner = ByPool,
                          ![wk[w].chunk].puts = @ + 1]
  /\ wk' = [wk EXCEPT ![w].pc = IF wk[w].lines = <<>> THEN "recv" ELSE "scan"]
  /\ UNCHANGED <<list, lm, cfg, pr, sent, ctl, events, aborted>>

\* The chunk's lines are done: linesPool.Put(&chunk), and back to the select.
WorkerPut(w) ==
  /\ ~aborted
  /\ wk[w].pc = "scan"
  /\ wk[w].lines = <<>>
  /\ pools' = [pools EXCEPT !.lines = TRUE]
  /\ bufs' = [bufs EXCEPT ![wk[w].chunk].owner = ByPool,
                          ![wk[w].chunk].puts = @ + 1]
  /\ wk' = [wk EXCEPT ![w].pc = "recv"]
  /\ UNCHANGED <<list, lm, cfg, pr, sent, ctl, events, aborted>>

Next ==
  \/ ProducerRead
  \/ ProducerGetPanic
  \/ ProducerReadNothing
  \/ ProducerClose
  \/ ProducerWait
  \/ \E w \in Workers : Handoff(w)
  \/ \E w \in Workers : WorkerClosed(w)
  \/ \E w \in Workers : WorkerCancelled(w)
  \/ \E w \in Workers : WorkerLine(w)
  \/ \E w \in Workers : WorkerStringPanic(w)
  \/ \E w \in Workers : WorkerPut(w)

Spec == Init /\ [][Next]_vars

(***************************************************************************)
(* SpecList: parallelListAndRead, with its listFiles and readFileWorker    *)
(* goroutines.  readFile (and the Process it runs) is one step here.       *)
(***************************************************************************)
MaxEntries == 3      \* most entries under dirPath

\* What filepath.Walk meets under dirPath, in its (lexical, depth-first)
\* order: regular files, directories, and entries it cannot read ("bad": the
\* callback is called with err != nil).  depth 1 is dirPath's own children,
\* depth 2 the children of the directory before them.
Entries == [kind : {"file", "dir", "bad"}, depth : 1..2]

WellFormed(t) ==
  \A i \in 1..Len(t) :
    t[i].depth = 2 =>
      /\ i > 1
      /\ \/ t[i - 1].depth = 2
         \/ t[i - 1].kind = "dir"

Trees == {t \in SeqsOf(Entries, 0, MaxEntries) : WellFormed(t)}

Listers == DOMAIN lis
Readers == DOMAIN rdr
Files == {i \in 1..Len(lcfg.tree) : lcfg.tree[i].kind = "file"}

\* The search Action has compiled the pattern (or kept nil) and chosen the
\* walker type; parallelListAndRead has started numWorkers listFiles and
\* numWorkers readFileWorker goroutines.
ListInit ==
  /\ MatchIdle
  /\ PipeIdle
  /\ \E n \in 1..MaxWorkers :
      \E t \in Trees :
        \E q \in PipeQueries :
          \E isRegex \in BOOLEAN :
            \E isRecursive \in BOOLEAN :
              /\ lcfg = [numWorkers |-> n, tree |-> t, query |-> q,
                         regex |-> isRegex, re |-> SearchPattern(q, isRegex),
                         walkerType |-> IF isRecursive THEN "Recursive"
                                        ELSE "Current"]
              /\ lis = [l \in 1..n |-> [pc |-> "walk", at |-> 1]]
              /\ rdr = [r \in 1..n |-> [pc |-> "recv", file |-> 0]]
              /\ reads = [i \in 1..Len(t) |-> 0]
  /\ lst = [closed |-> FALSE, returned |-> FALSE, errors |-> 0]

\* The walk callback on a directory: nothing is sent.
ListerSkipDir(l) ==
  /\ lis[l].pc = "walk"
  /\ lis[l].at <= Len(lcfg.tree)
  /\ lcfg.tree[lis[l].at].kind = "dir"
  /\ lis' = [lis EXCEPT ![l].at = @ + 1]
  /\ UNCHANGED <<lm, pipe, lcfg, rdr, lst, reads>>

\* The walk callback on a regular file: fileChan <- path, received by reader
\* r (fileChan is unbuffered).
ListerSend(l, r) ==
  /\ lis[l].pc = "walk"
  /\ lis[l].at <= Len(lcfg.tree)
  /\ lcfg.tree[lis[l].at].kind = "file"
  /\ rdr[r].pc = "recv"
  /\ rdr' = [rdr EXCEPT ![r] = [pc |-> "read", file |-> lis[l].at]]
  /\ lis' = [lis EXCEPT ![l].at = @ + 1]
  /\ UNCHANGED <<lm, pipe, lcfg, lst, reads>>

\* The walk callback is called with err != nil and returns it: Walk stops
\* and returns the error, listFiles prints it and is done.
ListerError(l) ==
  /\ lis[l].pc = "walk"
  /\ lis[l].at <= Len(lcfg.tree)
  /\ lcfg.tree[lis[l].at].kind = "bad"
  /\ lis' = [lis EXCEPT ![l].pc = "done"]
  /\ lst' = [lst EXCEPT !.errors = @ + 1]
  /\ UNCHANGED <<lm, pipe, lcfg, rdr, reads>>

\* Walk has visited everything and returns nil.
ListerDone(l) ==
  /\ lis[l].pc = "walk"
  /\ lis[l].at = Len(lcfg.tree) + 1
  /\ lis' = [lis EXCEPT ![l].pc = "done"]
  /\ UNCHANGED <<lm, pipe, lcfg, rdr, lst, reads>>

\* readFileWorker calls readFile on the path it received.
ReaderReadFile(r) ==
  /\ rdr[r].pc = "read"
  /\ reads' = [reads EXCEPT ![rdr[r].file] = @ + 1]
  /\ rdr' = [rdr EXCEPT ![r] = [pc |-> "recv", file |-> 0]]
  /\ UNCHANGED <<lm, pipe, lcfg, lis, lst>>

\* wgList.Wait() returns; close(fileChan).
CloseFileChan ==
  /\ ~lst.closed
  /\ \A l \in Listers : lis[l].pc = "done"
  /\ lst' = [lst EXCEPT !.closed = TRUE]
  /\ UNCHANGED <<lm, pipe, lcfg, lis, rdr, reads>>

\* readFileWorker finds fileChan closed and returns.
ReaderClosed(r) ==
  /\ lst.closed
  /\ rdr[r].pc = "recv"
  /\ rdr' = [rdr EXCEPT ![r].pc = "done"]
  /\ UNCHANGED <<lm, pipe, lcfg, lis, lst, reads>>

\* wgRead.Wait() returns; parallelListAndRead returns nil (and only now does
\* its deferred cancel() run: no goroutine ever sees ctx.Done()).
ListReturn ==
  /\ lst.closed
  /\ ~lst.returned
  /\ \A r \in Readers : rdr[r].pc = "done"
  /\ lst' = [lst EXCEPT !.returned = TRUE]
  /\ UNCHANGED <<lm, pipe, lcfg, lis, rdr, reads>>

ListNext ==
  \/ \E l \in Listers : ListerSkipDir(l)
  \/ \E l \in Listers : \E r \in Readers : ListerSend(l, r)
  \/ \E l \in Listers : ListerError(l)
  \/ \E l \in Listers : ListerDone(l)
  \/ \E r \in Readers : ReaderReadFile(r)
  \/ CloseFileChan
  \/ \E r \in Readers : ReaderClosed(r)
  \/ ListReturn

SpecList == ListInit /\ [][ListNext]_vars

(***************************************************************************)
(* Properties                                                              *)
(***************************************************************************)
RECURSIVE Flatten(_)
Flatten(ss) == IF ss = <<>> THEN <<>> ELSE Head(ss) \o Flatten(Tail(ss))

\* q occurs in l, byte for byte.
Contains(l, q) ==
  \E i \in 0..(Len(l) - Len(q)) : Slice(l, i, Len(q)) = q

DefaultMode(c) == ~c.regex /\ ~c.ci /\ ~c.ww

AllWorkersDone == \A w \in Workers : wk[w].pc = "done"

\* C1: once the producer has exhausted the file and closed chunkChan, the
\* chunks it sent, concatenated in order, are the file's bytes.
C1_ChunkFidelity == ctl.closed => Flatten(sent) = cfg.file

\* C2: under a tree with no unreadable entry, no regular file is passed to
\* readFile more than once, and when parallelListAndRead has returned each
\* was passed exactly once.
C2_EachFileReadOnce ==
  (\A i \in 1..Len(lcfg.tree) : lcfg.tree[i].kind # "bad") =>
    \A i \in Files : reads[i] <= 1 /\ (lst.returned => reads[i] = 1)

\* C3: once Process has returned after closing chunkChan, no worker is still
\* at work: no match event is printed afterwards.
C3_JoinBeforeReturn ==
  [][(pr.pc = "returned" /\ ctl.closed) => events' = events]_vars

\* C4: in default literal mode the scan reports a match exactly when the
\* query is a byte-exact substring of the line (a window that only shares
\* the query's hash is no match; a query longer than the line never matches).
C4_HashScanSound ==
  (lm.evals > 0 /\ DefaultMode(lm)) =>
    /\ lm.res \in {"match", "nomatch"}
    /\ lm.res = "match" <=> Contains(lm.line, lm.query0)

\* C4's case: a line was scanned that has a window with the query's hash and
\* other bytes, and no match was reported.
C4_Witness ==
  /\ lm.evals > 0
  /\ DefaultMode(lm)
  /\ lm.res = "nomatch"
  /\ \E i \in 0..(Len(lm.line) - Len(lm.query0)) :
       /\ HashOf(lm.variant, Slice(lm.line, i, Len(lm.query0))) = lm.queryHash
       /\ Slice(lm.line, i, Len(lm.query0)) # lm.query0

\* C5: in case-insensitive literal mode of src/unnamed/part_000 a match is
\* reported exactly when the lower-cased query occurs in the lower-cased line.
C5_CaseInsensitive ==
  (lm.evals > 0 /\ lm.variant = "part" /\ lm.ci /\ ~lm.ww /\ ~lm.regex) =>
    (lm.res = "match" <=> Contains(ToLower(lm.line), ToLower(lm.query0)))

\* C6: in whole-word literal mode of src/unnamed/part_000 a match is reported
\* exactly when the query's text occurs literally in the line with a word
\* boundary (as \b has it) on both sides.
C6_WholeWordLiteral ==
  (lm.evals > 0 /\ lm.variant = "part" /\ lm.ww /\ ~lm.ci /\ ~lm.regex) =>
    (lm.res = "match" <=>
       \E i \in 0..(Len(lm.line) - Len(lm.query0)) :
          /\ Slice(lm.line, i, Len(lm.query0)) = lm.query0
          /\ IsBoundary(lm.line, i)
          /\ IsBoundary(lm.line, i + Len(lm.query0)))

C8_Terminates ==
  (cfg.variant = "part" /\ DefaultMode(cfg)
     /\ ~(ctl.cancelled /\ ~ctl.closed)) =>
    \/ ENABLED Next
    \/ pr.pc = "returned" /\ ctl.closed /\ AllWorkersDone

\* C9: when regex mode is selected and the query does not compile, readFile
\* is called with no file (nothing is opened, nothing is matched).
C9_BadPatternStopsSearch ==
  (lcfg.numWorkers > 0 /\ lcfg.regex /\ lcfg.re = Nil) =>
    \A i \in Files : reads[i] = 0

\* C10: when parallelListAndRead has returned, every regular file under the
\* root has been sent and read, unreadable entries or not.
C10_TraversalContinues ==
  lst.returned => \A i \in Files : reads[i] >= 1

\* C11: in src/unnamed/part_000, without the recursive flag (walker type
\* Current) no file inside a subdirectory of dirPath is passed to readFile;
\* such files are searched only under the recursive flag.
C11_TraversalPolicy ==
  (lcfg.numWorkers > 0 /\ lcfg.walkerType = "Current") =>
    \A i \in Files : lcfg.tree[i].depth = 2 => reads[i] = 0

\* The offset in the file of the k-th chunk sent, if the chunks are
\* consecutive pieces of the file.
OffsetOf(k) == Len(Flatten(SubSeq(sent, 1, k - 1)))

EndsWithNL(s) == s # <<>> /\ s[Len(s)] = NL

C13_AcquireNeverFails ==
  cfg.variant = "part" => ctl.panic # "linesPool.Get"

\* C17: every match event of src/unnamed/part_000 carries the query as it
\* was passed to Process, in every mode.
C17_EventsCarryQuery ==
  cfg.variant = "part" => \A e \in BagToSet(events) : e.query = cfg.query

\* The lines of a chunk: the pieces between its newlines, and what follows
\* the last newline if that is not empty; trailing \r and \n trimmed.
RECURSIVE LinesOf(_)
LinesOf(chunk) ==
  IF chunk = <<>> THEN <<>>
  ELSE LET k == FirstNL(chunk, 0)
       IN  IF k = 0 THEN <<TrimRight(chunk)>>
           ELSE <<TrimRight(SubSeq(chunk, 1, k))>> \o
                LinesOf(SubSeq(chunk, k + 1, Len(chunk)))

\* C18: a worker of src/main.go goes through every line of the chunk it
\* received, a last line without a newline included: the lines it has
\* evaluated or skipped and those it still has before it are the chunk's.
C18_EveryLineEvaluated ==
  cfg.variant = "main" =>
    \A w \in Workers :
      wk[w].pc = "scan" =>
        LET all == LinesOf(sent[wk[w].chunk])
        IN  /\ wk[w].idx + Len(wk[w].lines) = Len(all)
            /\ \A i \in 1..Len(wk[w].lines) :
                 TrimRight(wk[w].lines[i]) = all[wk[w].idx + i]

\* C19: a worker of src/unnamed/part_000 never panics on the value it takes
\* from stringPool: it reaches the match decision of every non-empty line.
C19_WorkerNeverAborts ==
  cfg.variant = "part" => ctl.panic # "stringPool.Get"

Buffers == 1..Len(bufs)

\* C14: in src/unnamed/part_000 every buffer has one holder: a worker that is
\* scanning a chunk holds that chunk's buffer and no other, the producer
\* holds the buffer it is about to send, the pool holds exactly the buffers
\* that were released; a buffer is received at most once and released at
\* most once, and it is released only by the worker that holds it once that
\* worker has no line of the chunk left to scan.
C14_BufferOwnership ==
  /\ [](cfg.variant = "part" =>
         /\ \A b \in Buffers :
              /\ bufs[b].puts <= 1
              /\ bufs[b].recvs <= 1
              /\ bufs[b].owner = ByPool <=> bufs[b].puts = 1
              /\ \A w \in Workers :
                   bufs[b].owner = ByWorker(w) =>
                     wk[w].pc = "scan" /\ wk[w].chunk = b
         /\ \A w \in Workers :
              wk[w].pc = "scan" => bufs[wk[w].chunk].owner = ByWorker(w)
         /\ pr.pc = "send" => bufs[Len(bufs)].owner = ByProducer)
  /\ [][cfg.variant = "part" =>
         \A b \in Buffers :
           bufs'[b].puts # bufs[b].puts =>
             \E w \in Workers :
               /\ bufs[b].owner = ByWorker(w)
               /\ wk[w].lines = <<>>
               /\ wk'[w].pc = "recv"]_vars

\* C14's case: one buffer has been released to the pool and a worker is
\* scanning the chunk in another.
C14_Witness ==
  /\ cfg.variant = "part"
  /\ \E b \in Buffers : bufs[b].owner = ByPool
  /\ \E w \in Workers : wk[w].pc = "scan" /\ wk[w].lines # <<>>

\* What the spec takes for a match of the query in a line, by mode.
SpecMatches(line, c) ==
  IF c.regex
  THEN c.re # Nil /\ MatchString(c.re, line)
  ELSE LET l == IF c.ci THEN ToLower(line) ELSE line
           q == IF c.ci THEN ToLower(c.query) ELSE c.query
       IN  IF c.ww
           THEN \E i \in 0..(Len(l) - Len(q)) :
                   /\ Slice(l, i, Len(q)) = q
                   /\ IsBoundary(l, i)
                   /\ IsBoundary(l, i + Len(q))
           ELSE Contains(l, q)

\* The match events printed for line j of chunk k.
EventsFor(k, j) == {e \in BagToSet(events) : e.chunk = k /\ e.idx = j}

\* C15: when Process of src/unnamed/part_000 has completed without
\* cancellation, every chunk sent was received exactly once, and for each
\* line of each chunk exactly one match event was printed if the line is not
\* empty and matches, and none otherwise.
C15_OneEventPerMatch ==
  (cfg.variant = "part" /\ pr.pc = "returned" /\ ctl.closed) =>
    \A k \in 1..Len(sent) :
      /\ bufs[k].recvs = 1
      /\ \A j \in 1..Len(LinesOf(sent[k])) :
           LET line == LinesOf(sent[k])[j]
           IN  IF line # <<>> /\ SpecMatches(line, cfg)
               THEN /\ Cardinality(EventsFor(k, j)) = 1
                    /\ \A e \in EventsFor(k, j) : CopiesIn(e, events) = 1
               ELSE EventsFor(k, j) = {}

\* C16: in case-insensitive or whole-word mode of src/unnamed/part_000 the
\* query and the pattern a worker matches with change only in that worker's
\* own turn of its line loop; no step of another worker or of the producer
\* changes them.
C16_WorkerStateIsolated ==
  [][(cfg.variant = "part" /\ (cfg.ci \/ cfg.ww)) =>
       \A w \in Workers :
         (wk'[w].query # wk[w].query \/ wk'[w].r # wk[w].r) =>
           /\ wk[w].pc = "scan"
           /\ wk'[w].idx = wk[w].idx + 1
           /\ \A v \in Workers \ {w} : wk'[v] = wk[v]]_vars

\* C16's case: two workers are scanning chunks at once, and the query of
\* one, rewritten by its own line loop, differs from the other's.
C16_Witness ==
  /\ cfg.variant = "part"
  /\ cfg.ci \/ cfg.ww
  /\ \E w \in Workers : \E v \in Workers :
       /\ w # v
       /\ wk[w].pc = "scan" /\ wk[v].pc = "scan"
       /\ wk[w].query # wk[v].query

\* The chunks read from the file and not yet fully scanned: their buffers
\* are with the producer or with a worker.
InFlight == {b \in Buffers : bufs[b].n > 0 /\ bufs[b].owner # ByPool}

\* C20: in src/unnamed/part_000 at most numWorkers + 1 chunks are in flight:
\* at most one with the producer, waiting to be sent, and at most one with
\* each worker.
C20_Backpressure ==
  cfg.variant = "part" =>
    /\ Cardinality(InFlight) <= cfg.numWorkers + 1
    /\ Cardinality({b \in InFlight : bufs[b].owner = ByProducer}) <= 1
    /\ \A w \in Workers :
         Cardinality({b \in InFlight : bufs[b].owner = ByWorker(w)}) <= 1

\* C20's case: the bound is met: every worker is scanning a chunk and the
\* producer holds the next one, which it cannot send.
C20_Witness ==
  /\ cfg.variant = "part"
  /\ Cardinality(InFlight) = cfg.numWorkers + 1
  /\ pr.pc = "send"
  /\ \A w \in Workers : wk[w].pc = "scan"
====
